---------------------------- MODULE Spec2Model ----------------------------
(***************************************************************************)
(* Phase-vocoder pitch shifter, alc/effects/pshifter.cpp (PshifterState).  *)
(*                                                                         *)
(* The state is the fields of one PshifterState plus the position and the  *)
(* locals of a running process() call.  process() is cut at the places     *)
(* where its loops hand over: the FIFO transfer, the frame extraction and  *)
(* analysis, the read of the bin count, each iteration of the remap loop,  *)
(* the resynthesis, the overlap-add, and the final mix.                    *)
(*                                                                         *)
(* Numbers.  Samples are symbolic: an input sample is its position in the  *)
(* stream, a synthesized sample is the list of frame contributions that    *)
(* were added into its accumulator slot.  The transform kernel is outside  *)
(* the file: the spectrum it returns is any magnitude/phase per bin, drawn *)
(* from a bounded set.  Phases live on the grid pi/PhaseDen, analysis      *)
(* frequencies on the grid 1/FreqDen bins, the fixed-point ratio is an     *)
(* integer over MixerFracOne; on these grids the arithmetic of the source  *)
(* is exact rational arithmetic and is modelled as such.                   *)
(*                                                                         *)
(* Sizes.  The frame is 2^LogStftSize samples and the fixed point has      *)
(* MixerFracBits fractional bits; the source uses 1024 and the width of    *)
(* core/mixer/defs.h.  The operators below are the source's expressions    *)
(* over these names; the small widths let the scenarios run through the    *)
(* ratios of the whole scaled unsigned type, 0 and its maximum included.   *)
(***************************************************************************)
EXTENDS Integers, Sequences, FiniteSets, TLC

(***************************************************************************)
(* Bounds of the model.                                                    *)
(***************************************************************************)
LogStftSize == 3        \* the frame holds 2^LogStftSize samples
MixerFracBits == 4      \* fractional bits of the fixed-point ratio
UIntBits == 7           \* width of the scaled unsigned type of mPitchShiftI
MaxBlock == 2           \* largest samplesToDo of one process() call
MaxHops == 6            \* hops of input the framer scenario consumes
PhaseHops == 3          \* hops of input the phase scenario consumes
MaxMag == 2             \* largest magnitude of one analysis bin
MaxPartials == 3        \* bins of nonzero magnitude in one spectrum
MaxDown == 60           \* lowest CoarseTune of the ratio scenario, semitones down
MaxUp == 36             \* highest CoarseTune of the ratio scenario, semitones up
MaxOctaves == 2         \* |CoarseTune|/12 of the merge scenario
PhaseOctaves == 1       \* |CoarseTune|/12 of the phase scenario
MaxRaceCoarse == 12     \* |CoarseTune| of the race scenario (semitones)
MaxGain == 1            \* the gain vectors and output targets update() is given
MaxUpdates == 1         \* update() calls between two resets

(***************************************************************************)
(* Program constants.                                                      *)
(***************************************************************************)
OversampleFactor == 4
StftSize == 2^LogStftSize
StftHalfSize == StftSize \div 2
StftStep == StftSize \div OversampleFactor
MixerFracOne == 2^MixerFracBits
MixerFracHalf == MixerFracOne \div 2
UIntMax == 2^UIntBits - 1

\* Phases are multiples of pi/PhaseDen, the coarsest grid that holds
\* expected_cycles = 2*pi/OversampleFactor; that is FreqDen grid steps, and
\* an analysis frequency is a multiple of 1/FreqDen bin.
PhaseDen == OversampleFactor \div 2
FreqDen == (2 * PhaseDen) \div OversampleFactor
\* mSumPhase is kept in units of pi/SumDen.
SumDen == PhaseDen * MixerFracOne

Bins == 0..StftHalfSize
Slots == 0..(StftSize-1)

Min(a, b) == IF a < b THEN a ELSE b
Max(a, b) == IF a > b THEN a ELSE b

\* mBufferOut holds one line of the mixer, the most a process() call is given.
BufferLineSize == Max(MaxBlock, StftStep)

(***************************************************************************)
(* C++ integer conversions and division: truncation toward zero, and the   *)
(* remainder that takes the sign of the dividend.                          *)
(***************************************************************************)
double2int(num, den) == IF num >= 0 THEN num \div den ELSE -((-num) \div den)
CRem(a, b) == a - b * double2int(a, b)

(***************************************************************************)
(* Symbolic samples.                                                       *)
(***************************************************************************)
ZeroSample == [kind |-> "zero", t |-> 0, c |-> << >>, f32 |-> FALSE]
InSample(t) == [kind |-> "in", t |-> t, c |-> << >>, f32 |-> TRUE]
SynSample(contribs) == [kind |-> "syn", t |-> 0, c |-> contribs, f32 |-> FALSE]
\* static_cast<float>(d): the value is narrowed to single precision.
ToFloat(s) == [s EXCEPT !.f32 = TRUE]
\* Which input a frame position holds: its stream position, -1 for silence
\* from before the reset, -2 for a synthesized sample.
SrcOf(s) == IF s.kind = "in" THEN s.t ELSE IF s.kind = "zero" THEN -1 ELSE -2

ZeroBin == [Magnitude |-> 0, FreqBin |-> 0]

VARIABLES
    mCount, mPos, mPitchShiftI, mPitchShift,
    mFIFO, mLastPhase, mSumPhase, mOutputAccum, mFftBuffer,
    mAnalysisBuffer, mSynthesisBuffer, mBufferOut,
    mCurrentGains, mTargetGains, mOutTarget,
    \* the running process() call
    pc, samplesToDo, base, bin_count, ratioRead, k, j, tmp, fault,
    \* the stream so far
    total, cycles, out,
    \* the host: update() calls since the reset
    updates

fields == <<mCount, mPos, mPitchShiftI, mPitchShift, mFIFO, mLastPhase, mSumPhase,
            mOutputAccum, mFftBuffer, mAnalysisBuffer, mSynthesisBuffer, mBufferOut,
            mCurrentGains, mTargetGains, mOutTarget>>
locals == <<pc, samplesToDo, base, bin_count, ratioRead, k, j, tmp, fault>>
stream == <<total, cycles, out>>
vars == <<fields, locals, stream, updates>>

(***************************************************************************)
(* deviceUpdate: the reset.                                                *)
(***************************************************************************)
ResetFields ==
    /\ mCount = 0
    /\ mPos = StftSize - StftStep
    /\ mPitchShiftI = MixerFracOne
    /\ mPitchShift = MixerFracOne
    /\ mFIFO = [i \in Slots |-> ZeroSample]
    /\ mLastPhase = [b \in Bins |-> 0]
    /\ mSumPhase = [b \in Bins |-> 0]
    /\ mOutputAccum = [i \in Slots |-> << >>]
    /\ mFftBuffer = [i \in Slots |-> ZeroSample]
    /\ mAnalysisBuffer = [b \in Bins |-> ZeroBin]
    /\ mSynthesisBuffer = [b \in Bins |-> ZeroBin]
    /\ mCurrentGains = 0
    /\ mTargetGains = 0

Init ==
    /\ ResetFields
    /\ mBufferOut = [i \in 0..(BufferLineSize-1) |-> ZeroSample]
    /\ mOutTarget = 0
    /\ pc = "idle" /\ samplesToDo = 0 /\ base = 0
    /\ bin_count = 0 /\ ratioRead = 0 /\ k = 0 /\ j = 0
    /\ tmp = [b \in Bins |-> 0]
    /\ fault = "none"
    /\ total = 0 /\ cycles = 0 /\ out = << >>
    /\ updates = 0

deviceUpdate ==
    /\ pc = "idle"
    /\ mCount' = 0
    /\ mPos' = StftSize - StftStep
    /\ mPitchShiftI' = MixerFracOne
    /\ mPitchShift' = MixerFracOne
    /\ mFIFO' = [i \in Slots |-> ZeroSample]
    /\ mLastPhase' = [b \in Bins |-> 0]
    /\ mSumPhase' = [b \in Bins |-> 0]
    /\ mOutputAccum' = [i \in Slots |-> << >>]
    /\ mFftBuffer' = [i \in Slots |-> ZeroSample]
    /\ mAnalysisBuffer' = [b \in Bins |-> ZeroBin]
    /\ mSynthesisBuffer' = [b \in Bins |-> ZeroBin]
    /\ mCurrentGains' = 0
    /\ mTargetGains' = 0
    /\ total' = 0 /\ cycles' = 0 /\ out' = << >>
    /\ UNCHANGED <<mBufferOut, mOutTarget, locals>>


(***************************************************************************)
(* update: the parameter update.                                           *)
(***************************************************************************)
\* std::pow(2.0f, i/24.0f) for i = 0..23 as a float: the 24-bit significand
\* over 2^23.
Pow2Table == <<8388608, 8634413, 8887421, 9147842, 9415894, 9691801,
               9975792, 10268105, 10568984, 10878679, 11197448, 11525559,
               11863283, 12210904, 12568711, 12937002, 13316085, 13706276,
               14107901, 14521294, 14946800, 15384775, 15835583, 16299601>>

\* pitch*MixerFracOne for a tune that is a multiple of 50 cents, as the
\* fraction num/den: significand * 2^(octave + MixerFracBits - 23).  A value
\* below 2^-6 is given as 0 and one of 2^23 or more as UIntMax+1: each
\* converts like every other value of its kind.
PitchTimesOne(tune) ==
    LET q == tune \div 50
        e == (q \div 24) + MixerFracBits - 23
        m == Pow2Table[(q % 24) + 1]
    IN  IF e >= 0 THEN [num |-> UIntMax + 1, den |-> 1]
        ELSE IF e < -30 THEN [num |-> 0, den |-> 1]
        ELSE [num |-> m, den |-> 2^(-e)]

\* fastf2u: the build converts with the current rounding mode (to nearest,
\* ties to even) or by truncation; a value outside the unsigned type
\* converts to any value of the type.
fastf2u(x) ==
    LET fl == x.num \div x.den
        r2 == 2 * (x.num % x.den)
        rne == IF r2 > x.den \/ (r2 = x.den /\ fl % 2 = 1) THEN fl + 1 ELSE fl
    IN  IF rne > UIntMax THEN 0..UIntMax ELSE {fl, rne}

\* Mutant of update: it also restarts the hop counter.
updateRestartsHop(CoarseTune, FineTune, gains, target) ==
    LET tune == CoarseTune*100 + FineTune IN
    /\ \E r \in fastf2u(PitchTimesOne(tune)) :
          /\ mPitchShiftI' = r
          /\ mPitchShift' = r
    /\ mOutTarget' = target
    /\ mTargetGains' = gains
    /\ mCount' = 0
    /\ UNCHANGED <<mPos, mFIFO, mLastPhase, mSumPhase, mOutputAccum,
                   mFftBuffer, mAnalysisBuffer, mSynthesisBuffer, mBufferOut,
                   mCurrentGains>>
    /\ UNCHANGED <<locals, stream>>

update(CoarseTune, FineTune, gains, target) ==
    LET tune == CoarseTune*100 + FineTune IN
    /\ \E r \in fastf2u(PitchTimesOne(tune)) :
          /\ mPitchShiftI' = r
          /\ mPitchShift' = r
    /\ mOutTarget' = target
    /\ mTargetGains' = gains
    /\ UNCHANGED <<mCount, mPos, mFIFO, mLastPhase, mSumPhase, mOutputAccum,
                   mFftBuffer, mAnalysisBuffer, mSynthesisBuffer, mBufferOut,
                   mCurrentGains>>
    /\ UNCHANGED <<locals, stream>>

(***************************************************************************)
(* process: entry and the FIFO transfer (lines 161-179).                   *)
(***************************************************************************)
ProcessBegin(n) ==
    /\ pc = "idle"
    /\ samplesToDo' = n
    /\ base' = 0
    /\ pc' = IF 0 < n THEN "fifo" ELSE "mix"
    /\ UNCHANGED <<fields, bin_count, ratioRead, k, j, tmp, fault, stream>>

\* Mutant of Wrap: the mask forgotten.
WrapUnmasked(x) == x
\* (mPos+StftStep) & (mFIFO.size()-1): the size is a power of two.
Wrap(x) == x % StftSize

Fifo ==
    /\ pc = "fifo"
    /\ LET todo == Min(StftStep - mCount, samplesToDo - base)
           first == mPos + mCount
       IN  IF first + todo > StftSize
           THEN /\ fault' = "oob" /\ pc' = "fault"
                /\ UNCHANGED <<fields, samplesToDo, base, bin_count, ratioRead,
                               k, j, tmp, stream>>
           ELSE
           /\ mBufferOut' = [i \in DOMAIN mBufferOut |->
                               IF base <= i /\ i < base + todo
                               THEN ToFloat(mFIFO[first + (i - base)])
                               ELSE mBufferOut[i]]
           /\ mFIFO' = [i \in Slots |->
                           IF first <= i /\ i < first + todo
                           THEN InSample(total + (i - first))
                           ELSE mFIFO[i]]
           /\ base' = base + todo
           /\ total' = total + todo
           /\ IF mCount + todo < StftStep
              THEN /\ mCount' = mCount + todo
                   /\ mPos' = mPos
                   /\ cycles' = cycles
                   /\ pc' = "mix"
              ELSE /\ mCount' = 0
                   /\ mPos' = Wrap(mPos + StftStep)
                   /\ cycles' = cycles + 1
                   /\ pc' = "analyze"
           /\ UNCHANGED <<mPitchShiftI, mPitchShift, mLastPhase, mSumPhase,
                          mOutputAccum, mFftBuffer, mAnalysisBuffer,
                          mSynthesisBuffer, mCurrentGains, mTargetGains, mOutTarget,
                          samplesToDo, bin_count, ratioRead, k, j, tmp, fault, out>>

(***************************************************************************)
(* process: frame extraction, forward transform, analysis (lines 184-227). *)
(***************************************************************************)
\* Mutant of FrameSlot: the frame copied from slot 0, not from the cursor.
FrameSlotFromZero(pos, kk) == kk
\* The two copy loops of lines 184-187 (and 278-281): position kk of the
\* frame is slot mPos+kk up to the end of the array, then slot 0 onwards.
FrameSlot(pos, kk) == IF kk < StftSize - pos THEN pos + kk ELSE kk - (StftSize - pos)

\* A spectrum the transform can return: a magnitude and a phase per bin.
\* The bins of P are its partials; every other bin is zero, and std::arg of
\* a zero coefficient is 0.
Spectrum(P, m, f) ==
    [mag |-> [b \in Bins |-> IF b \in P THEN m[b] ELSE 0],
     ph |-> [b \in Bins |-> IF b \in P THEN f[b] ELSE 0]]

Spectra(supports, mags, phases) ==
    UNION { {Spectrum(P, m, f) : m \in [P -> mags], f \in [P -> phases]} :
            P \in supports }

\* Lines 205-218 on the phase grid: the phase step less the expected step,
\* wrapped to -1..+1 (times pi) by the quotient fold.
Deviation(b, phase, last) ==
    LET t0 == (phase - last) - (b % OversampleFactor) * FreqDen
        qpd == double2int(t0, PhaseDen)
    IN  t0 - PhaseDen * (qpd + CRem(qpd, 2))

Analyze(spectra) ==
    /\ pc = "analyze"
    /\ mFftBuffer' = [kk \in Slots |-> mFIFO[FrameSlot(mPos, kk)]]
    /\ \E sp \in spectra :
          /\ mLastPhase' = sp.ph
          /\ mAnalysisBuffer' = [b \in Bins |->
                [Magnitude |-> sp.mag[b],
                 FreqBin |-> b * FreqDen + Deviation(b, sp.ph[b], mLastPhase[b])]]
    /\ pc' = "bincount"
    /\ UNCHANGED <<mCount, mPos, mPitchShiftI, mPitchShift, mFIFO, mSumPhase,
                   mOutputAccum, mSynthesisBuffer, mBufferOut, mCurrentGains,
                   mTargetGains, mOutTarget>>
    /\ UNCHANGED <<samplesToDo, base, bin_count, ratioRead, k, j, tmp, fault, stream>>

(***************************************************************************)
(* process: the bin remap (lines 232-247).                                 *)
(***************************************************************************)
bin_limit == ((StftHalfSize+1) * MixerFracOne) - MixerFracHalf - 1
\* Mutants of BinCount: the clamp to the array size forgotten; the +1 forgotten.
BinCountUnclamped(ratio) == StftHalfSize + 1
BinCountShort(ratio) == Min(StftHalfSize+1, bin_limit \div ratio)
BinCount(ratio) == Min(StftHalfSize+1, bin_limit \div ratio + 1)
\* (k*mPitchShiftI + MixerFracHalf) >> MixerFracBits, in size_t.
Dest(kk, ratio) == (kk*ratio + MixerFracHalf) \div MixerFracOne

\* Lines 232-235: clear the synthesis bins and read the ratio for bin_count.
\* A ratio of 0 divides by zero at line 235: the division traps, or it yields
\* a quotient the hardware picks.
RemapBegin ==
    /\ pc = "bincount"
    /\ mSynthesisBuffer' = [b \in Bins |-> ZeroBin]
    /\ IF mPitchShiftI = 0
       THEN \/ /\ fault' = "divzero" /\ pc' = "fault"
               /\ UNCHANGED <<bin_count, ratioRead, k>>
            \/ \E q \in 0..StftHalfSize :
                  /\ bin_count' = Min(StftHalfSize + 1, q + 1)
                  /\ ratioRead' = mPitchShiftI
                  /\ k' = 0
                  /\ pc' = "remap"
                  /\ fault' = fault
       ELSE /\ bin_count' = BinCount(mPitchShiftI)
            /\ ratioRead' = mPitchShiftI
            /\ k' = 0
            /\ pc' = "remap"
            /\ fault' = fault
    /\ UNCHANGED <<mCount, mPos, mPitchShiftI, mPitchShift, mFIFO, mLastPhase,
                   mSumPhase, mOutputAccum, mFftBuffer, mAnalysisBuffer, mBufferOut,
                   mCurrentGains, mTargetGains, mOutTarget>>
    /\ UNCHANGED <<samplesToDo, base, j, tmp, stream>>

\* Lines 244-246: the merge of analysis bin kk into synthesis bin jj.
Merge(syn, ana, kk, jj, ratio) ==
    [syn EXCEPT ![jj] =
        [Magnitude |-> syn[jj].Magnitude + ana[kk].Magnitude,
         FreqBin |-> IF ana[kk].Magnitude > syn[jj].Magnitude
                     THEN ana[kk].FreqBin * ratio
                     ELSE syn[jj].FreqBin]]

\* One iteration of the loop of lines 236-247, or its exit.  The fields
\* mPitchShiftI and mPitchShift are plain memory: the iteration uses the
\* value loaded for bin_count or the value the field holds now.
RemapStep ==
    /\ pc = "remap"
    /\ IF k < bin_count
       THEN \E ri \in {ratioRead, mPitchShiftI}, rf \in {ratioRead, mPitchShift} :
               LET jj == Dest(k, ri) IN
               /\ j' = jj
               /\ IF jj > StftHalfSize
                  THEN /\ fault' = "oob" /\ pc' = "fault"
                       /\ UNCHANGED <<mSynthesisBuffer, k>>
                  ELSE /\ mSynthesisBuffer' =
                             Merge(mSynthesisBuffer, mAnalysisBuffer, k, jj, rf)
                       /\ k' = k + 1
                       /\ UNCHANGED <<pc, fault>>
       ELSE /\ pc' = "resynth"
            /\ UNCHANGED <<mSynthesisBuffer, k, j, fault>>
    /\ UNCHANGED <<mCount, mPos, mPitchShiftI, mPitchShift, mFIFO, mLastPhase,
                   mSumPhase, mOutputAccum, mFftBuffer, mAnalysisBuffer, mBufferOut,
                   mCurrentGains, mTargetGains, mOutTarget>>
    /\ UNCHANGED <<samplesToDo, base, bin_count, ratioRead, tmp, stream>>

(***************************************************************************)
(* process: resynthesis (lines 252-275).                                   *)
(***************************************************************************)
\* Line 257 in units of pi/SumDen: FreqBin*expected_cycles is the synthesis
\* FreqBin numerator itself.
Advance(sum, freq) == sum + freq
\* Mutant of WrapPhase: the remainder taken non-negative (floored modulo).
WrapPhaseFloorMod(x) ==
    LET qpd == double2int(x, SumDen)
    IN  x - SumDen * (qpd + (qpd % 2))
\* Lines 263-264: qpd = double2int(tmp/pi); tmp -= pi*(qpd + qpd%2).
WrapPhase(x) ==
    LET qpd == double2int(x, SumDen)
    IN  x - SumDen * (qpd + CRem(qpd, 2))

\* Position i of the frame the inverse transform returns for this cycle; it
\* remembers which input the extracted frame held at i.
IfftSample(cyc, i, held) ==
    [kind |-> "ifft", t |-> SrcOf(held), c |-> << <<cyc, i>> >>, f32 |-> FALSE]

Resynth ==
    /\ pc = "resynth"
    /\ tmp' = [b \in Bins |-> Advance(mSumPhase[b], mSynthesisBuffer[b].FreqBin)]
    /\ mSumPhase' = [b \in Bins |-> WrapPhase(tmp'[b])]
    /\ mFftBuffer' = [i \in Slots |-> IfftSample(cycles, i, mFftBuffer[i])]
    /\ pc' = "ola"
    /\ UNCHANGED <<mCount, mPos, mPitchShiftI, mPitchShift, mFIFO, mLastPhase,
                   mOutputAccum, mAnalysisBuffer, mSynthesisBuffer, mBufferOut,
                   mCurrentGains, mTargetGains, mOutTarget>>
    /\ UNCHANGED <<samplesToDo, base, bin_count, ratioRead, k, j, fault, stream>>

(***************************************************************************)
(* process: overlap-add and copy-out (lines 277-285).                      *)
(***************************************************************************)
\* The frame position that lands on accumulator slot dst (lines 278-281).
FramePos(pos, dst) == IF dst >= pos THEN dst - pos ELSE StftSize - pos + dst

Contribution(s, i) == [cycle |-> s.c[1][1], k |-> i, src |-> s.t]

Accumulate(acc, frame, pos) ==
    [dst \in Slots |->
        Append(acc[dst], Contribution(frame[FramePos(pos, dst)], FramePos(pos, dst)))]

\* std::copy_n(mOutputAccum.begin()+mPos, StftStep, mFIFO.begin()+mPos)
CopyOut(fifo, acc, pos) ==
    [i \in Slots |-> IF pos <= i /\ i < pos + StftStep
                     THEN SynSample(acc[i]) ELSE fifo[i]]

\* Mutant of Drain: the drained slots left as they are.
DrainNothing(acc, pos) == acc
\* std::fill_n(mOutputAccum.begin()+mPos, StftStep, 0.0)
Drain(acc, pos) ==
    [i \in Slots |-> IF pos <= i /\ i < pos + StftStep THEN << >> ELSE acc[i]]

OverlapAdd ==
    /\ pc = "ola"
    /\ IF mPos + StftStep > StftSize
       THEN /\ fault' = "oob" /\ pc' = "fault"
            /\ UNCHANGED <<mOutputAccum, mFIFO>>
       ELSE LET acc == Accumulate(mOutputAccum, mFftBuffer, mPos) IN
            /\ mFIFO' = CopyOut(mFIFO, acc, mPos)
            /\ mOutputAccum' = Drain(acc, mPos)
            /\ pc' = IF base < samplesToDo THEN "fifo" ELSE "mix"
            /\ fault' = fault
    /\ UNCHANGED <<mCount, mPos, mPitchShiftI, mPitchShift, mLastPhase, mSumPhase,
                   mFftBuffer, mAnalysisBuffer, mSynthesisBuffer, mBufferOut,
                   mCurrentGains, mTargetGains, mOutTarget>>
    /\ UNCHANGED <<samplesToDo, base, bin_count, ratioRead, k, j, tmp, stream>>

(***************************************************************************)
(* process: the mix (lines 289-290).  MixSamples reads the first           *)
(* samplesToDo samples of mBufferOut and steps the current gains toward    *)
(* the target gains, reaching them or not within the call.                 *)
(***************************************************************************)
Emitted(buf, n) == [i \in 1..n |-> buf[i-1]]

Mix ==
    /\ pc = "mix"
    /\ out' = out \o Emitted(mBufferOut, samplesToDo)
    /\ mCurrentGains' \in {mCurrentGains, mTargetGains}
    /\ pc' = "idle"
    \* the call returns: its arguments and locals are gone
    /\ samplesToDo' = 0 /\ base' = 0
    /\ bin_count' = 0 /\ ratioRead' = 0 /\ k' = 0 /\ j' = 0
    /\ tmp' = [b \in Bins |-> 0]
    /\ UNCHANGED <<mCount, mPos, mPitchShiftI, mPitchShift, mFIFO, mLastPhase,
                   mSumPhase, mOutputAccum, mFftBuffer, mAnalysisBuffer,
                   mSynthesisBuffer, mBufferOut, mTargetGains, mOutTarget>>
    /\ UNCHANGED <<fault, total, cycles>>

(***************************************************************************)
(* The host.  It calls deviceUpdate, update and process; a scenario bounds *)
(* the inputs it passes: the tunes, the spectra the transform returns, the *)
(* block lengths, the length of the stream, how late in a stream it resets *)
(* and how often it updates.  Calls come one at a time, except that in a   *)
(* scenario with race = TRUE update runs on a control thread and may fall  *)
(* between any two steps of a process() call.                              *)
(***************************************************************************)
FineTunes == {-50, 0, 50}
Octaves == {c \in (-12*MaxOctaves)..(12*MaxOctaves) : c % 12 = 0}

Host(S) ==
    \/ /\ total <= S.resetBy
       /\ deviceUpdate
       /\ updates' = 0
    \/ \E c \in S.coarse, f \in S.fine, g \in S.gains, t \in S.targets :
          /\ S.race \/ pc = "idle"
          /\ pc # "fault"
          /\ updates < MaxUpdates
          /\ update(c, f, g, t)
          /\ updates' = updates + 1
    \/ \E n \in S.blocks :
          /\ total + n <= S.maxTotal
          /\ ProcessBegin(n)
          /\ UNCHANGED updates
    \/ Fifo /\ UNCHANGED updates
    \/ Analyze(Spectra(S.supports, S.mags, S.phases)) /\ UNCHANGED updates
    \/ RemapBegin /\ UNCHANGED updates
    \/ RemapStep /\ UNCHANGED updates
    \/ Resynth /\ UNCHANGED updates
    \/ OverlapAdd /\ UNCHANGED updates
    \/ Mix /\ UNCHANGED updates

\* The framer scenario: a stream of MaxHops hops at the default ratio, cut
\* into calls of every length, flat spectra.
FramerScenario ==
    [coarse |-> {0}, fine |-> {0}, gains |-> {MaxGain}, targets |-> {0},
     supports |-> {Bins}, mags |-> {1}, phases |-> {0},
     blocks |-> 0..MaxBlock, maxTotal |-> MaxHops * StftStep,
     resetBy |-> StftStep, race |-> FALSE]

Next == Host(FramerScenario)
Spec == Init /\ [][Next]_vars

\* The ratio scenario: one hop, whole or cut before its last sample, under every tune
\* from -MaxDown to +MaxUp semitones, flat spectra.
RatioScenario ==
    [coarse |-> (-MaxDown)..MaxUp, fine |-> {0},
     gains |-> {MaxGain}, targets |-> {MaxGain},
     supports |-> {Bins}, mags |-> {1}, phases |-> {0},
     blocks |-> {StftStep - 1, StftStep}, maxTotal |-> StftStep, resetBy |-> StftStep,
     race |-> FALSE]

NextRatio == Host(RatioScenario)
SpecRatio == Init /\ [][NextRatio]_vars

\* The merge scenario: one hop in one call at whole octaves, spectra of up to
\* MaxPartials partials of every magnitude and of phases that tell their
\* frequencies apart.
MergeScenario ==
    [coarse |-> Octaves, fine |-> {0}, gains |-> {0}, targets |-> {0},
     supports |-> {P \in SUBSET Bins : Cardinality(P) <= MaxPartials},
     mags |-> 1..MaxMag, phases |-> 0..PhaseDen,
     blocks |-> {StftStep}, maxTotal |-> StftStep, resetBy |-> StftStep,
     race |-> FALSE]

NextMerge == Host(MergeScenario)
SpecMerge == Init /\ [][NextMerge]_vars

\* The phase scenario: PhaseHops hops, one call each, PhaseOctaves octaves up
\* or down; every hop is silent or holds one partial of any phase in the
\* lowest or the highest bin.
PhaseScenario ==
    [coarse |-> {-12 * PhaseOctaves, 12 * PhaseOctaves}, fine |-> {0},
     gains |-> {0}, targets |-> {0},
     supports |-> {{}, {0}, {StftHalfSize}}, mags |-> {1},
     phases |-> (-PhaseDen)..PhaseDen,
     blocks |-> {StftStep}, maxTotal |-> PhaseHops * StftStep,
     resetBy |-> StftStep, race |-> FALSE]

NextPhase == Host(PhaseScenario)
SpecPhase == Init /\ [][NextPhase]_vars

\* The race scenario: one hop with update on the control thread, tunes of
\* the range the parameter setters accept.
RaceScenario ==
    [coarse |-> (-MaxRaceCoarse)..MaxRaceCoarse, fine |-> FineTunes,
     gains |-> {0}, targets |-> {0},
     supports |-> {Bins}, mags |-> {1}, phases |-> {0},
     blocks |-> 0..MaxBlock, maxTotal |-> StftStep, resetBy |-> StftStep,
     race |-> TRUE]

NextRace == Host(RaceScenario)
SpecRace == Init /\ [][NextRace]_vars

(***************************************************************************)
(* Claims.                                                                 *)
(***************************************************************************)
\* The ratios 0.25x to 4.0x.
InClaimRange(ratio) == MixerFracOne <= 4*ratio /\ ratio <= 4*MixerFracOne

\* C1: with the stored ratio between 0.25x and 4.0x, every destination
\* index j the remap loop computes for a scanned bin is at most
\* StftHalfSize, so no access to mSynthesisBuffer[j] leaves the array.
C1_RemapIndexInBounds ==
    (InClaimRange(mPitchShiftI) /\ pc \in {"remap", "resynth", "ola", "fault"})
        => (j <= StftHalfSize /\ fault # "oob")

\* C1 witness: at 2.0x or more the scan was clamped and its last bin landed
\* on the last synthesis bin.
C1_Witness ==
    /\ pc = "remap" /\ k = bin_count /\ bin_count <= StftHalfSize
    /\ InClaimRange(mPitchShiftI) /\ mPitchShiftI >= 2*MixerFracOne
    /\ j = StftHalfSize

\* The analysis bins the remap loop merged into synthesis bin jj.
Contributors(jj) == {kk \in 0..(bin_count-1) : Dest(kk, ratioRead) = jj}

RECURSIVE SumMag(_)
SumMag(K) ==
    IF K = {} THEN 0
    ELSE LET kk == CHOOSE x \in K : TRUE
         IN  mAnalysisBuffer[kk].Magnitude + SumMag(K \ {kk})

\* C2: after the remap loop every destination bin holds the sum of the
\* magnitudes of its contributors, and a destination bin that received a
\* nonzero magnitude carries the frequency, times the ratio, of a
\* contributor of the largest magnitude, for any number of contributors.
C2_DominantWins ==
    pc = "resynth" =>
        \A jj \in Bins :
            /\ mSynthesisBuffer[jj].Magnitude = SumMag(Contributors(jj))
            /\ mSynthesisBuffer[jj].Magnitude > 0 =>
                  \E kk \in Contributors(jj) :
                      /\ \A o \in Contributors(jj) :
                            mAnalysisBuffer[o].Magnitude <= mAnalysisBuffer[kk].Magnitude
                      /\ mSynthesisBuffer[jj].FreqBin =
                            mAnalysisBuffer[kk].FreqBin * ratioRead

\* C3: whatever the split into calls, after total samples the hop counter
\* is total mod StftStep, total div StftStep cycles have been started, and
\* the cursor is (StftSize - StftStep + cycles*StftStep) mod StftSize.
C3_HopCounter ==
    /\ 0 <= mCount /\ mCount < StftStep
    /\ mCount = total % StftStep
    /\ cycles = total \div StftStep
    /\ mPos = (StftSize - StftStep + (total \div StftStep) * StftStep) % StftSize
    /\ pc = "idle" => fault = "none"

\* C3 witness: between two calls, mid-hop, after the cursor has wrapped.
C3_Witness ==
    /\ pc = "idle"
    /\ cycles > OversampleFactor
    /\ mCount = StftStep - 1
    /\ mPos = 0

\* C4: whatever ratio update() stored, a process() call that runs a cycle
\* completes with no fault.
C4_NoFault == fault = "none"

\* C5: with update() falling between any two steps of a process() call,
\* every destination index stays in the array and the call completes.
C5_RaceBenign == j <= StftHalfSize /\ pc # "fault"

\* The fields update() does not write.
UpdateFrame ==
    <<mCount, mPos, mFIFO, mOutputAccum, mFftBuffer, mAnalysisBuffer,
      mSynthesisBuffer, mLastPhase, mSumPhase, mCurrentGains, mBufferOut>>

\* C6 (amended): update() writes only the ratio fields, the target gains
\* and the output target mOutTarget; it leaves the hop counter, the cursor,
\* the ring buffer, the accumulator, the spectral buffer, the bin arrays,
\* both phase memories, the current gains and the working buffer unchanged.
C6_UpdateFrame == [][updates' = updates + 1 => UNCHANGED UpdateFrame]_vars

\* C6 (as claimed): update() writes only the ratio fields and the target
\* gains; every other field of the instance, mOutTarget included, is unchanged.
C6_UpdateFrameOnlyRatioAndGains ==
    [][updates' = updates + 1 => UNCHANGED <<UpdateFrame, mOutTarget>>]_vars

\* C6 witness: update() has run mid-hop on a stream with history and stored
\* a new ratio, new target gains and a new output target.
C6_Witness ==
    /\ updates = 1 /\ pc = "idle"
    /\ mCount # 0
    /\ mPitchShiftI # MixerFracOne
    /\ mTargetGains # 0 /\ mOutTarget # 0

\* C7: after the wrap every accumulated phase lies in [-pi, +pi], and what
\* the wrap subtracted from the advanced phase is a multiple of 2*pi.
C7_PhaseWrapped ==
    \A b \in Bins :
        /\ -SumDen <= mSumPhase[b] /\ mSumPhase[b] <= SumDen
        /\ pc = "ola" => (tmp[b] - mSumPhase[b]) % (2*SumDen) = 0

\* C7 witness: on a later hop a phase that was not zero advanced below
\* -pi and was wrapped back.
C7_Witness ==
    /\ pc = "ola" /\ cycles >= 2
    /\ \E b \in Bins :
          /\ tmp[b] < -SumDen
          /\ tmp[b] # mSynthesisBuffer[b].FreqBin

\* C8: every sample emitted at stream position t >= StftSize is an
\* accumulator value made of exactly OversampleFactor contributions, one
\* from each of the consecutive cycles whose frame covers input t-StftSize,
\* each taken at the frame position that held that input; and a drained
\* slot starts again from zero.
C8_OverlapAdd ==
    /\ \A t \in StftSize..(Len(out)-1) :
          LET s == out[t+1]
              c == t \div StftStep
          IN  /\ s.kind = "syn"
              /\ Len(s.c) = OversampleFactor
              /\ \A m \in 1..OversampleFactor :
                    s.c[m] = [cycle |-> c - OversampleFactor + m,
                              k |-> t - (c - OversampleFactor + m) * StftStep,
                              src |-> t - StftSize]
    /\ pc \in {"idle", "fifo", "mix"} =>
          \A i \in Slots : Len(mOutputAccum[i]) < OversampleFactor

\* C8 witness: the whole stream of the scenario has been emitted.
C8_Witness ==
    /\ Len(out) = MaxHops * StftStep
    /\ Len(out) > StftSize + StftStep

\* C9: for every nonzero ratio the scan range is exact: an analysis bin is
\* scanned iff its rounded destination is at most StftHalfSize, and at 1.0x
\* or below all StftHalfSize+1 bins are scanned.
C9_ScanRangeExact ==
    (pc = "remap" /\ ratioRead # 0) =>
        /\ \A kk \in Bins : (kk < bin_count) <=> (Dest(kk, ratioRead) <= StftHalfSize)
        /\ ratioRead <= MixerFracOne => bin_count = StftHalfSize + 1

\* C9 witness: above 1.0x the scan stops short, and the first bin left out
\* would have landed one past the last synthesis bin.
C9_Witness ==
    /\ pc = "remap" /\ k = bin_count
    /\ ratioRead > MixerFracOne
    /\ 1 < bin_count /\ bin_count <= StftHalfSize
    /\ Dest(bin_count, ratioRead) = StftHalfSize + 1

\* The input sample at stream position t, silence before the reset.
InputAt(t) == IF t >= 0 THEN InSample(t) ELSE ZeroSample
\* What has been emitted so far, the running call included.
EmittedStream == out \o Emitted(mBufferOut, base)

\* C10: at every frame extraction the ring buffer read from the cursor, and
\* the frame taken from it, is the StftSize most recent input samples in
\* order; the samples the cycles copied into the ring buffer are in the
\* emitted stream, each once at its own place, and none is in the frame.
C10_FrameIsRecentInput ==
    /\ pc = "analyze" =>
          /\ \A i \in Slots : mFIFO[Wrap(mPos + i)] = InputAt(total - StftSize + i)
          /\ \A t \in 0..(Len(EmittedStream)-1) :
                LET s == EmittedStream[t+1] IN
                IF t < StftStep THEN s.kind = "zero"
                ELSE /\ s.kind = "syn"
                     /\ s.c[Len(s.c)].cycle = t \div StftStep
                     /\ s.c[Len(s.c)].k = t % StftStep
    /\ pc = "bincount" =>
          \A i \in Slots : mFftBuffer[i] = InputAt(total - StftSize + i)

\* C10 witness: an extraction with the cursor inside the array, after the
\* ring buffer has been filled and overwritten.
C10_Witness ==
    /\ pc = "bincount"
    /\ total >= StftSize + 2*StftStep
    /\ mPos # 0

============================================================================
